---- MODULE Spec2Model ----
(***************************************************************************)
(* DigitMind (src/main.cpp): a console Mastermind game on combinations of  *)
(* 4 distinct digits.  The model follows main(): menu, difficulty level,   *)
(* then either computerPlayer (the computer guesses, the user scores) or    *)
(* humanPlayer (the user guesses a secret the computer holds).  Each action *)
(* is one step of the program between two blocking reads of std::cin.       *)
(***************************************************************************)
EXTENDS Integers, Sequences, FiniteSets, TLC

\* ------------------------------------------------------------------ state
VARIABLES
    pc,            \* where the program waits or stands
    choice,        \* main: int choice = menu()
    level,         \* main: auto level = getDifficultyLevel()
    combinations,  \* main: auto combinations = generateAllCombinations(level)
    guess,         \* performComputerMove: DigitCombination guess
    score,         \* performComputerMove / humanPlayer: Score score
    secretCode,    \* humanPlayer: auto secretCode
    playerGuess,   \* humanPlayer: DigitCombination playerGuess
    outcome,       \* the message a finished game printed
    userSecret,    \* the combination the user holds when answering truthfully
    observed,      \* the (guess, score) pairs of the computer's moves so far
    moves,         \* the number of calls of performComputerMove in this game
    loop           \* generateAllCombinations: the loop counters <<i, j, k, l>>

vars == <<pc, choice, level, combinations, guess, score, secretCode, playerGuess,
          outcome, userSecret, observed, moves, loop>>

\* ---------------------------------------------------------------- bounds
\* Largest difficulty level the user enters at the level prompt in a game.
MaxLevelInput == 4
\* Largest integer the user enters as a feedback count.
MaxFeedback == 4
\* Largest integer the user enters at the menu.
MaxChoice == 3
\* Largest digit of the guesses and codes the scoring harness draws.
MaxScoreDigit == 4
\* Longest list of which every element is tried as the random selection (the
\* full list of level 4 has 24 elements).
MaxFull == 24
\* Number of leading elements of a longer list tried as the random selection.
MaxPick == 1

\* ------------------------------------------------------ program constants
CodeLen == 4
MinLevel == 4
MaxLevel == 10
LastOption == 2

Positions == 1..CodeLen

\* --------------------------------------------------------------- Score
\* Score() : right_position(0), wrong_position(0)
NewScore == [right_position |-> 0, wrong_position |-> 0]

\* The inner loop of calculateScore: is the digit anywhere in the code.
DigitInCode(d, code) == \E j \in Positions : d = code[j]

\* ScoreStep with its two tests in the other order: the digit is looked up
\* in the code before the positions are compared.
ScoreStepValueFirst(sc, g, code, i) ==
    IF DigitInCode(g[i], code)
    THEN [sc EXCEPT !.wrong_position = @ + 1]
    ELSE IF g[i] = code[i]
         THEN [sc EXCEPT !.right_position = @ + 1]
         ELSE sc

\* One iteration of the outer loop of calculateScore, on position i.
ScoreStep(sc, g, code, i) ==
    IF g[i] = code[i]
    THEN [sc EXCEPT !.right_position = @ + 1]
    ELSE IF DigitInCode(g[i], code)
         THEN [sc EXCEPT !.wrong_position = @ + 1]
         ELSE sc

calculateScore(g, code) ==
    ScoreStep(ScoreStep(ScoreStep(ScoreStep(NewScore, g, code, 1),
                                  g, code, 2), g, code, 3), g, code, 4)

\* ------------------------------------------------- generateAllCombinations
\* AllDifferent without its last comparison, k != l.
AllDifferentButLast(i, j, k, l) ==
    i # j /\ i # k /\ i # l /\ j # k /\ j # l

\* The test of the innermost loop body.
AllDifferent(i, j, k, l) ==
    i # j /\ i # k /\ i # l /\ j # k /\ j # l /\ k # l

\* The n-th iteration (n = 0 .. lv^4 - 1) of the four nested loops has
\* i, j, k, l the base-lv digits of n, most significant first.
LoopTuple(n, lv) ==
    << n \div (lv * lv * lv), (n \div (lv * lv)) % lv,
       (n \div lv) % lv, n % lv >>

generateAllCombinations(lv) ==
    SelectSeq([n \in 1..(lv * lv * lv * lv) |-> LoopTuple(n - 1, lv)],
              LAMBDA c : AllDifferent(c[1], c[2], c[3], c[4]))

Range(list) == {list[n] : n \in 1..Len(list)}

\* ------------------------------------------------------ filterCombinations
\* Erase as swap-and-pop: the last element takes the erased one's place.
EraseSwapLast(list, it) ==
    IF it = Len(list)
    THEN SubSeq(list, 1, it - 1)
    ELSE SubSeq(list, 1, it - 1) \o <<list[Len(list)]>> \o SubSeq(list, it + 1, Len(list) - 1)

\* std::vector::erase at (1-based) position it.
Erase(list, it) == SubSeq(list, 1, it - 1) \o SubSeq(list, it + 1, Len(list))

\* KeepsCandidate with the test inverted: the candidates that give the score
\* are the ones erased.
KeepsCandidateInverted(g, candidate, sc) ==
    calculateScore(g, candidate) # sc

\* KeepsCandidate comparing only right_position.
KeepsCandidateRightOnly(g, candidate, sc) ==
    calculateScore(g, candidate).right_position = sc.right_position

\* The test that keeps a candidate.
KeepsCandidate(g, candidate, sc) == calculateScore(g, candidate) = sc

RECURSIVE FilterLoop(_, _, _, _)
FilterLoop(list, it, g, sc) ==
    IF it > Len(list)
    THEN list
    ELSE IF KeepsCandidate(g, list[it], sc)
         THEN FilterLoop(list, it + 1, g, sc)
         ELSE FilterLoop(Erase(list, it), it, g, sc)

filterCombinations(allCombinations, g, sc) ==
    FilterLoop(allCombinations, 1, g, sc)

\* -------------------------------------------------- selectRandomCombination
\* Every 4-tuple over the digits of a level and one value beside them: what a
\* read of four ints can yield when nothing constrains it.
AnyTuples(lv) ==
    {<<a, b, c, d>> : a \in 0..lv, b \in 0..lv, c \in 0..lv, d \in 0..lv}

\* The indexes dis(gen) is taken to yield on a list of n elements: dis is
\* uniform on 0 .. size()-1, here 1 .. n.  Every index of a list of at most
\* MaxFull elements, the first MaxPick indexes of a longer one.
DrawnIndexes(n) == IF n <= MaxFull THEN 1..n ELSE 1..MaxPick

\* The values a call can return: combinations[dis(gen)].  On an empty list
\* size()-1 wraps around and the index is out of range: the read is undefined
\* and may yield anything.
selectRandomCombination(list, lv) ==
    IF Len(list) > 0
    THEN {list[n] : n \in DrawnIndexes(Len(list))}
    ELSE AnyTuples(lv)

NoCombination == <<>>
NoLoop == <<>>

\* ----------------------------------------------------------------- inputs
ChoiceInputs == (0 - 1)..MaxChoice
LevelInputs == ((MinLevel - 1)..MaxLevelInput) \cup {MaxLevel + 1}
FeedbackInputs == (0 - 1)..MaxFeedback

\* The locals of one iteration of main's loop, before they are set.
Fresh ==
    /\ choice = 0
    /\ level = 0
    /\ combinations = <<>>
    /\ guess = NoCombination
    /\ score = NewScore
    /\ secretCode = NoCombination
    /\ playerGuess = NoCombination
    /\ outcome = "none"
    /\ userSecret = NoCombination
    /\ observed = {}
    /\ moves = 0
    /\ loop = NoLoop

Init == pc = "menu" /\ Fresh

\* ------------------------------------------------------------------- menu
\* while (choice > 2): the menu is shown again.
MenuAgain(c) == c > LastOption

MenuReprompt ==
    /\ pc = "menu"
    /\ \E c \in ChoiceInputs :
          /\ MenuAgain(c)
          /\ choice' = c
    /\ UNCHANGED <<pc, level, combinations, guess, score, secretCode, playerGuess,
                   outcome, userSecret, observed, moves, loop>>

\* menu returns 0 and main calls exit(0).
MenuQuit ==
    /\ pc = "menu"
    /\ \E c \in ChoiceInputs :
          /\ ~MenuAgain(c)
          /\ c = 0
          /\ choice' = c
    /\ pc' = "exit"
    /\ UNCHANGED <<level, combinations, guess, score, secretCode, playerGuess,
                   outcome, userSecret, observed, moves, loop>>

\* menu returns something else and main goes on to getDifficultyLevel.
MenuChoose ==
    /\ pc = "menu"
    /\ \E c \in ChoiceInputs :
          /\ ~MenuAgain(c)
          /\ c # 0
          /\ choice' = c
    /\ pc' = "getDifficultyLevel"
    /\ UNCHANGED <<level, combinations, guess, score, secretCode, playerGuess,
                   outcome, userSecret, observed, moves, loop>>

\* ----------------------------------------------------- getDifficultyLevel
LevelRejected(lv) == lv < MinLevel \/ lv > MaxLevel

LevelReprompt ==
    /\ pc = "getDifficultyLevel"
    /\ \E lv \in LevelInputs :
          /\ LevelRejected(lv)
          /\ level' = lv
    /\ UNCHANGED <<pc, choice, combinations, guess, score, secretCode, playerGuess,
                   outcome, userSecret, observed, moves, loop>>

\* choice == 1: computerPlayer(combinations) starts.  The user either holds a
\* combination of the level and will answer truthfully about it (userSecret),
\* or answers anything (NoCombination).
StartComputerPlayer ==
    /\ pc = "getDifficultyLevel"
    /\ choice = 1
    /\ \E lv \in LevelInputs :
          /\ ~LevelRejected(lv)
          /\ level' = lv
          /\ combinations' = generateAllCombinations(lv)
    /\ userSecret' \in {NoCombination} \cup Range(combinations')
    /\ pc' = "computerPlayer"
    /\ UNCHANGED <<choice, guess, score, secretCode, playerGuess, outcome,
                   observed, moves, loop>>

\* choice == 2: humanPlayer(level, combinations) starts and selects the secret.
StartHumanPlayer ==
    /\ pc = "getDifficultyLevel"
    /\ choice = 2
    /\ \E lv \in LevelInputs :
          /\ ~LevelRejected(lv)
          /\ level' = lv
          /\ combinations' = generateAllCombinations(lv)
    /\ secretCode' \in selectRandomCombination(combinations', level')
    /\ pc' = "humanPlayer"
    /\ UNCHANGED <<choice, guess, score, playerGuess, outcome, userSecret,
                   observed, moves, loop>>

\* Any other choice: neither branch is taken, the iteration ends and the menu
\* is shown again.
StartNothing ==
    /\ pc = "getDifficultyLevel"
    /\ choice # 1 /\ choice # 2
    /\ \E lv \in LevelInputs : ~LevelRejected(lv)
    /\ pc' = "menu"
    /\ choice' = 0
    /\ UNCHANGED <<level, combinations, guess, score, secretCode, playerGuess,
                   outcome, userSecret, observed, moves, loop>>

\* --------------------------------------- performComputerMove, computerPlayer
\* ReportsGuessed one too high.
ReportsGuessedAbove(rp) == rp = CodeLen + 1

\* InputErrorDetected with the negation of codeGuessed lost.
InputErrorMissed(list, codeGuessed) == list = <<>> /\ codeGuessed

\* if (score.right_position == 4) return true;
ReportsGuessed(rp) == rp = CodeLen

\* if (combinations.empty() && !codeGuessed)
InputErrorDetected(list, codeGuessed) == list = <<>> /\ ~codeGuessed

\* What the user may enter for a guess: the true score against userSecret when
\* the user answers truthfully, any two integers otherwise.
RightInputs(g) ==
    IF userSecret = NoCombination THEN FeedbackInputs
    ELSE {calculateScore(g, userSecret).right_position}
WrongInputs(g) ==
    IF userSecret = NoCombination THEN FeedbackInputs
    ELSE {calculateScore(g, userSecret).wrong_position}

\* The user reports 4 right positions: performComputerMove returns true
\* before it reads the second number and before it filters.
ComputerMoveGuessed ==
    /\ pc = "computerPlayer"
    /\ \E g \in selectRandomCombination(combinations, level) :
       \E rp \in RightInputs(g) :
          /\ ReportsGuessed(rp)
          /\ guess' = g
          /\ score' = [NewScore EXCEPT !.right_position = rp]
          /\ observed' = observed \cup {<<g, score'>>}
    /\ moves' = moves + 1
    /\ outcome' = "guessed"
    /\ pc' = "gameOver"
    /\ UNCHANGED <<choice, level, combinations, secretCode, playerGuess, userSecret, loop>>

\* Any other report: the second number is read and the list is filtered; an
\* empty list ends the game with "Input error detected".
ComputerMoveFilter ==
    /\ pc = "computerPlayer"
    /\ \E g \in selectRandomCombination(combinations, level) :
       \E rp \in RightInputs(g), wp \in WrongInputs(g) :
          /\ ~ReportsGuessed(rp)
          /\ guess' = g
          /\ score' = [right_position |-> rp, wrong_position |-> wp]
          /\ combinations' = filterCombinations(combinations, g, score')
          /\ observed' = observed \cup {<<g, score'>>}
    /\ moves' = moves + 1
    /\ IF InputErrorDetected(combinations', FALSE)
       THEN pc' = "gameOver" /\ outcome' = "inputError"
       ELSE pc' = "computerPlayer" /\ outcome' = outcome
    /\ UNCHANGED <<choice, level, secretCode, playerGuess, userSecret, loop>>

\* ------------------------------------------------------------ humanPlayer
\* The four ints read from the first four characters of the input: digits of
\* the level, or (the value level) a character that is none of them.
PlayerGuesses(lv) == AnyTuples(lv)

\* AnotherGuess with the bound one too low.
AnotherGuessBelow(s) == s.right_position < CodeLen - 1

\* while (score.right_position < 4): another prompt.
AnotherGuess(s) == s.right_position < CodeLen

\* The user enters a guess; it is scored against the secret and the two
\* counts are printed.
HumanGuess ==
    /\ pc = "humanPlayer"
    /\ \E pg \in PlayerGuesses(level) :
          /\ playerGuess' = pg
          /\ score' = calculateScore(pg, secretCode)
    /\ pc' = "humanScored"
    /\ UNCHANGED <<choice, level, combinations, guess, secretCode, outcome,
                   userSecret, observed, moves, loop>>

\* The loop test holds: the body ends (playerGuess is a local of the body)
\* and the user is prompted again.
HumanGuessAgain ==
    /\ pc = "humanScored"
    /\ AnotherGuess(score)
    /\ playerGuess' = NoCombination
    /\ pc' = "humanPlayer"
    /\ UNCHANGED <<choice, level, combinations, guess, score, secretCode, outcome,
                   userSecret, observed, moves, loop>>

\* The loop test fails: "Congratulations, you have guessed the combination!"
HumanGuessFound ==
    /\ pc = "humanScored"
    /\ ~AnotherGuess(score)
    /\ outcome' = "congratulations"
    /\ pc' = "gameOver"
    /\ UNCHANGED <<choice, level, combinations, guess, score, secretCode, playerGuess,
                   userSecret, observed, moves, loop>>

\* The game function returns: the iteration of main's loop ends, its locals
\* are gone and the menu is shown again.
NextRound ==
    /\ pc = "gameOver"
    /\ pc' = "menu"
    /\ choice' = 0
    /\ level' = 0
    /\ combinations' = <<>>
    /\ guess' = NoCombination
    /\ score' = NewScore
    /\ secretCode' = NoCombination
    /\ playerGuess' = NoCombination
    /\ outcome' = "none"
    /\ userSecret' = NoCombination
    /\ observed' = {}
    /\ moves' = 0
    /\ loop' = NoLoop

Next ==
    \/ MenuReprompt
    \/ MenuQuit
    \/ MenuChoose
    \/ LevelReprompt
    \/ StartComputerPlayer
    \/ StartHumanPlayer
    \/ StartNothing
    \/ ComputerMoveGuessed
    \/ ComputerMoveFilter
    \/ HumanGuess
    \/ HumanGuessAgain
    \/ HumanGuessFound
    \/ NextRound

Spec == Init /\ [][Next]_vars

\* The user answers each prompt of performComputerMove: a move that can be
\* made is made.
FairSpec == Spec /\ WF_vars(ComputerMoveGuessed \/ ComputerMoveFilter)

\* ------------------------------- generateAllCombinations, loop by loop
\* A call of generateAllCombinations(level) on its own, for every level
\* getDifficultyLevel can return; combinations holds allCombinations.
GenInit ==
    /\ pc = "generateAllCombinations"
    /\ level \in MinLevel..MaxLevel
    /\ loop = <<0, 0, 0, 0>>
    /\ choice = 0
    /\ combinations = <<>>
    /\ guess = NoCombination
    /\ score = NewScore
    /\ secretCode = NoCombination
    /\ playerGuess = NoCombination
    /\ outcome = "none"
    /\ userSecret = NoCombination
    /\ observed = {}
    /\ moves = 0

\* The loop body: push_back when the four counters differ.
LoopBody(list, c) ==
    IF AllDifferent(c[1], c[2], c[3], c[4]) THEN Append(list, c) ELSE list

\* The last iteration: every counter is level - 1.
LastIteration(c, lv) == \A n \in Positions : c[n] + 1 >= lv

\* The counters of the next iteration: l++, and on l == level the loop over
\* l ends, k++, and so on outwards.
Advance(c, lv) ==
    IF c[4] + 1 < lv THEN <<c[1], c[2], c[3], c[4] + 1>>
    ELSE IF c[3] + 1 < lv THEN <<c[1], c[2], c[3] + 1, 0>>
    ELSE IF c[2] + 1 < lv THEN <<c[1], c[2] + 1, 0, 0>>
    ELSE <<c[1] + 1, 0, 0, 0>>

GenIterate ==
    /\ pc = "generateAllCombinations"
    /\ ~LastIteration(loop, level)
    /\ combinations' = LoopBody(combinations, loop)
    /\ loop' = Advance(loop, level)
    /\ UNCHANGED <<pc, choice, level, guess, score, secretCode, playerGuess,
                   outcome, userSecret, observed, moves>>

GenReturn ==
    /\ pc = "generateAllCombinations"
    /\ LastIteration(loop, level)
    /\ combinations' = LoopBody(combinations, loop)
    /\ loop' = NoLoop
    /\ pc' = "generated"
    /\ UNCHANGED <<choice, level, guess, score, secretCode, playerGuess,
                   outcome, userSecret, observed, moves>>

\* The program, and beside it the calls of generateAllCombinations.
GenNext == Next \/ GenIterate \/ GenReturn

GenSpec == (Init \/ GenInit) /\ [][GenNext]_vars

\* ------------------------------------------------ calculateScore, by itself
\* A call of calculateScore(playerGuess, secretCode): any four digits as the
\* guess, four distinct digits as the code.
ScoreDigits == 0..MaxScoreDigit

ScoreInit ==
    /\ pc = "calculateScore"
    /\ playerGuess \in {<<a, b, c, d>> : a \in ScoreDigits, b \in ScoreDigits,
                                         c \in ScoreDigits, d \in ScoreDigits}
    /\ secretCode \in {<<a, b, c, d>> \in ScoreDigits \X ScoreDigits \X ScoreDigits \X ScoreDigits :
                         AllDifferent(a, b, c, d)}
    /\ score = NewScore
    /\ choice = 0
    /\ level = 0
    /\ combinations = <<>>
    /\ guess = NoCombination
    /\ outcome = "none"
    /\ userSecret = NoCombination
    /\ observed = {}
    /\ moves = 0
    /\ loop = NoLoop

ScoreCall ==
    /\ pc = "calculateScore"
    /\ score' = calculateScore(playerGuess, secretCode)
    /\ pc' = "scored"
    /\ UNCHANGED <<choice, level, combinations, guess, secretCode, playerGuess,
                   outcome, userSecret, observed, moves, loop>>

ScoreSpec == ScoreInit /\ [][ScoreCall]_vars

\* =================================================================== claims
\* The full list of each level, as pairs <<level, list>>.
FullLists == {<<lv, generateAllCombinations(lv)>> : lv \in MinLevel..MaxLevel}

FullListOf(lv) == (CHOOSE p \in FullLists : p[1] = lv)[2]

\* The program is in a game of computerPlayer (or has just ended one).
InComputerGame == choice = 1 /\ pc \in {"computerPlayer", "gameOver"}

\* C1: in computerPlayer, when every feedback the user enters is
\* calculateScore(guess, secret) for a secret of the level, the secret is in
\* the candidate list after every move and the game does not end with
\* "Input error detected".
C1_SecretStaysCandidate ==
    (InComputerGame /\ userSecret # NoCombination)
        => (userSecret \in Range(combinations) /\ outcome # "inputError")

C1_Witness ==
    /\ pc = "computerPlayer"
    /\ userSecret # NoCombination
    /\ moves >= 2
    /\ Len(combinations) >= 2

\* The combinations of a level that give, against the guess of each pair, the
\* score of the pair.
ConsistentWith(lv, pairs) ==
    {c \in Range(FullListOf(lv)) : \A p \in pairs : calculateScore(p[1], c) = p[2]}

PlaceIn(t, x) == CHOOSE n \in 1..Len(t) : t[n] = x

IsSubList(s, t) ==
    /\ \A i \in 1..Len(s) : s[i] \in Range(t)
    /\ \A i \in 1..(Len(s) - 1) : PlaceIn(t, s[i]) < PlaceIn(t, s[i + 1])

\* C3: every move of the computer leaves a sub-list of the candidate list it
\* found (nothing added, the order of the kept elements unchanged), so the
\* candidate count never grows during a game.
C3_FilterLeavesSubList ==
    [][pc = "computerPlayer" =>
          /\ IsSubList(combinations', combinations)
          /\ Len(combinations') <= Len(combinations)]_vars

C3_Witness ==
    /\ pc = "computerPlayer"
    /\ moves >= 1
    /\ Len(combinations) > 2
    /\ Len(combinations) < Len(FullListOf(level))

\* C4: the score of a code against itself is 4 right positions and 0 wrong
\* positions.
C4_SelfScoreIsFull ==
    (pc = "scored" /\ playerGuess = secretCode)
        => score = [right_position |-> CodeLen, wrong_position |-> 0]

C4_Witness == pc = "scored" /\ playerGuess = secretCode

\* The standard Mastermind score: the positional matches, and the value
\* matches left when no position of either side is used twice.
Occurrences(d, t) == Cardinality({n \in Positions : t[n] = d})

Smaller(a, b) == IF a < b THEN a ELSE b

RECURSIVE ValueMatches(_, _, _)
ValueMatches(ds, g, c) ==
    IF ds = {} THEN 0
    ELSE LET d == CHOOSE x \in ds : TRUE
         IN  Smaller(Occurrences(d, g), Occurrences(d, c)) + ValueMatches(ds \ {d}, g, c)

StandardScore(g, c) ==
    LET exact == Cardinality({n \in Positions : g[n] = c[n]})
    IN  [right_position |-> exact,
         wrong_position |-> ValueMatches(Range(g) \cup Range(c), g, c) - exact]

\* C5: for any four digits as the guess (a digit may repeat) and a code of 4
\* distinct digits, calculateScore gives the standard Mastermind score: a guess
\* digit counts in wrong_position only against a code position that is no
\* positional match and has not been counted already.
C5_ScoreIsStandard ==
    pc = "scored" => score = StandardScore(playerGuess, secretCode)

\* C6: menu returns 0, 1 or 2 only; main goes on from the menu with a choice
\* among them.
C6_MenuReturnsAnOption ==
    pc # "menu" => choice \in 0..LastOption

\* The 4-tuples of pairwise distinct digits of a level.
IsCombination(c, lv) ==
    /\ Len(c) = CodeLen
    /\ \A n \in Positions : c[n] \in 0..(lv - 1)
    /\ \A m, n \in Positions : m # n => c[m] # c[n]

CombinationsOf(lv) ==
    {c \in (0..(lv - 1)) \X (0..(lv - 1)) \X (0..(lv - 1)) \X (0..(lv - 1)) :
        IsCombination(c, lv)}

\* C7: for each level 4..10 generateAllCombinations returns exactly the
\* 4-tuples of pairwise distinct digits below the level, each once, that is
\* level*(level-1)*(level-2)*(level-3) of them and never none; and every
\* combination in the list of a game has this shape.
C7_ListIsTheCombinations ==
    /\ pc = "generated" =>
          /\ Range(combinations) = CombinationsOf(level)
          /\ Cardinality(Range(combinations)) = Len(combinations)
          /\ Len(combinations) = level * (level - 1) * (level - 2) * (level - 3)
          /\ Len(combinations) > 0
          /\ combinations = generateAllCombinations(level)
    /\ pc \in {"computerPlayer", "humanPlayer", "humanScored", "gameOver"} =>
          /\ level \in MinLevel..MaxLevel
          /\ \A n \in 1..Len(combinations) : IsCombination(combinations[n], level)

C7_Witness ==
    /\ pc = "generated"
    /\ Len(combinations) = level * (level - 1) * (level - 2) * (level - 3)

\* The progress measure of a computerPlayer game: the game goes on only while
\* the user has not reported 4 right positions and the list is not empty, a
\* move that does not end it has removed at least its guess, and moves made
\* plus candidates left never exceed the candidates of the level.
GameMeasure ==
    InComputerGame =>
        /\ moves <= Len(FullListOf(level))
        /\ pc = "computerPlayer" =>
              /\ combinations # <<>>
              /\ moves + Len(combinations) <= Len(FullListOf(level))
              /\ moves > 0 => guess \notin Range(combinations)
              /\ moves > 0 => score.right_position # CodeLen
        /\ pc = "gameOver" =>
              \/ outcome = "guessed" /\ score.right_position = CodeLen
              \/ outcome = "inputError" /\ combinations = <<>>

\* C8: computerPlayer always terminates, whatever feedback the user enters: the
\* computer guesses until the user reports 4 right positions or the list is
\* empty, which happens within as many moves as the level has candidates,
\* every other move removing at least the guess from the list.
C8_ComputerGameTerminates ==
    /\ []GameMeasure
    /\ (pc = "computerPlayer") ~> (pc = "gameOver")

C8_Witness ==
    /\ InComputerGame
    /\ pc = "gameOver"
    /\ moves >= 5

\* C9: in humanPlayer the secret is a combination of the level's full list and
\* stays the same; a guess scores 4 right positions exactly when it is the
\* secret, the game ends on exactly such a guess and any other guess leads to
\* the prompt again.
C9_HumanGameEndsOnTheSecret ==
    [][/\ pc \in {"humanPlayer", "humanScored"} =>
             /\ secretCode \in Range(FullListOf(level))
             /\ (pc' # "menu" => secretCode' = secretCode)
       /\ pc = "humanScored" =>
             /\ (score.right_position = CodeLen) <=> (playerGuess = secretCode)
             /\ (pc' = "gameOver") <=> (playerGuess = secretCode)
             /\ (pc' = "humanPlayer") <=> (playerGuess # secretCode)]_vars

C9_Witness ==
    /\ pc = "gameOver"
    /\ outcome = "congratulations"
    /\ playerGuess = secretCode

\* C10: selectRandomCombination is never called on an empty list and returns
\* a member of its list: each guess of the computer is in the candidate list
\* of the moment and agrees with all the feedback before it, and the secret of
\* humanPlayer is in the full list.
C10_SelectionIsFromTheList ==
    [][/\ pc = "computerPlayer" =>
             /\ combinations # <<>>
             /\ guess' \in Range(combinations)
             /\ \A p \in observed : calculateScore(p[1], guess') = p[2]
       /\ pc' = "humanPlayer" /\ pc = "getDifficultyLevel" =>
             /\ combinations' # <<>>
             /\ secretCode' \in Range(combinations')]_vars

C10_Witness ==
    /\ pc = "computerPlayer"
    /\ moves >= 3
    /\ guess # NoCombination

====
